---- MODULE Spec2Model ----
(***************************************************************************)
(* QuadSplit (src/App.tsx): the batch runner processImages, the archive    *)
(* packager downloadZip and the file-list handlers of the App component,   *)
(* as a state machine over the component's React state, the closures of    *)
(* the batch runs that are suspended at an await, and the browser's table  *)
(* of object URLs.                                                         *)
(***************************************************************************)
EXTENDS Integers, Sequences, FiniteSets

VARIABLES
    files,        \* useState<FileWithPreview[]>        (App.tsx:19)
    processed,    \* useState<ProcessedImage[]>         (App.tsx:20)
    status,       \* useState<ProcessingStatus>         (App.tsx:21)
    progress,     \* useState(0)                        (App.tsx:22)
    runs,         \* the invocations of processImages suspended at an await,
                  \* in start order
    liveUrls,     \* object URLs created and not yet revoked
    nextUrl,      \* the next object URL createObjectURL hands out
    jszip,        \* window.JSZip is defined
    downloads,    \* zips whose generateAsync is pending
    lastOp,       \* history: the handler that ran last
    cleared,      \* history: clearAll ran and no batch was started since
    publisher     \* history: which run set the processed list: "latest" (the
                  \* most recently started one), "stale" (an earlier one) or
                  \* "none" (emptied by clearAll or by a start)

vars == <<files, processed, status, progress, runs, liveUrls, nextUrl,
          jszip, downloads, lastOp, cleared, publisher>>

----------------------------------------------------------------------------
(* Bounds of the model *)

MaxFiles == 2        \* longest file list
MaxUrls == 2         \* preview URLs handed out in one behaviour
MaxRuns == 2         \* invocations of processImages suspended at the same time
MaxPick == 2         \* files picked in one change event
MaxDownloads == 1    \* zips being generated at the same time

(* File names are sequences of characters; "." is the separator. *)
FileNames == { <<"a", ".", "b", ".", "p">>, <<"a">> }

(* The identifiers Math.random() can produce (App.tsx:67), two of them. *)
RandomIds == { "r1", "r2" }

IDLE == "IDLE"
PROCESSING == "PROCESSING"
COMPLETED == "COMPLETED"
ERROR == "ERROR"
ProcessingStatus == { IDLE, PROCESSING, COMPLETED, ERROR }

----------------------------------------------------------------------------
(* Pure helpers *)

SeqsUpTo(S, n) == UNION { [1..k -> S] : k \in 1..n }

(* String.prototype.split('.') : the pieces between the dots. *)
RECURSIVE SplitDot(_)
SplitDot(s) ==
    IF \E i \in DOMAIN s : s[i] = "."
    THEN LET d == CHOOSE i \in DOMAIN s :
                     s[i] = "." /\ \A j \in 1..(i - 1) : s[j] # "."
         IN  <<SubSeq(s, 1, d - 1)>> \o SplitDot(SubSeq(s, d + 1, Len(s)))
    ELSE <<s>>

(* file.name.split('.')[0] *)
OriginalName(name) == SplitDot(name)[1]

(* Math.round(a / b) for a >= 0, b > 0: halves round up. *)
MathRound(a, b) == (2 * a + b) \div (2 * b)

(* Math.round(((i + 1) / files.length) * 100), i the 0-based loop index *)
ProgressAt(i, n) == MathRound((i + 1) * 100, n)

(* splitImageIntoFour: four data URLs, quadrant indices 0..3 in row-major  *)
(* order, of the image behind the file.                                    *)
SplitImageIntoFour(file) ==
    [q \in 1..4 |-> [kind |-> "dataURL", image |-> file.preview, quadrant |-> q - 1]]

(* dataURLtoBlob: the bytes of a data URL as a Blob. *)
DataURLtoBlob(dataUrl) ==
    [kind |-> "blob", image |-> dataUrl.image, quadrant |-> dataUrl.quadrant]

----------------------------------------------------------------------------
(* JSZip, as downloadZip uses it: folder() creates the folder entry unless *)
(* it exists, file() sets the entry at the path, replacing an older one.   *)

NewZip == [folders |-> {}, entries |-> {}]

ZipFolder(zip, name) == [zip EXCEPT !.folders = @ \cup {name}]

ZipFile(zip, folder, fname, blob) ==
    [zip EXCEPT !.entries =
        { e \in @ : ~(e.folder = folder /\ e.file = fname) }
        \cup { [folder |-> folder, file |-> fname, data |-> blob] }]

(* `${item.originalName}_quad_${idx + 1}.png`, idx the 0-based index *)
QuadFileName(originalName, idx) == <<originalName, "_quad_", idx + 1, ".png">>

RECURSIVE AddQuadrants(_, _, _)
AddQuadrants(zip, item, k) ==
    IF k > Len(item.quadrants) THEN zip
    ELSE AddQuadrants(
            ZipFile(zip, item.originalName,
                    QuadFileName(item.originalName, k - 1),
                    DataURLtoBlob(item.quadrants[k])),
            item, k + 1)

RECURSIVE BuildZip(_, _, _)
BuildZip(zip, items, k) ==
    IF k > Len(items) THEN zip
    ELSE BuildZip(AddQuadrants(ZipFolder(zip, items[k].originalName), items[k], 1),
                  items, k + 1)

----------------------------------------------------------------------------
(* One invocation of processImages: the file list its closure captured,    *)
(* the loop index, the local results array, and (history) the outcome of   *)
(* every Splitter call it has awaited and whether it is the most recently  *)
(* started invocation.                                                     *)

NewRun(fs) ==
    [files |-> fs, i |-> 0, results |-> <<>>, outcome |-> <<>>, latest |-> TRUE]

Superseded(rs) == [r \in DOMAIN rs |-> [rs[r] EXCEPT !.latest = FALSE]]

Remove(rs, r) == [k \in 1..(Len(rs) - 1) |-> IF k < r THEN rs[k] ELSE rs[k + 1]]

InFlight(run) == run.i < Len(run.files)

(* A processImages without its first line. *)
EarlyReturn_never(fs) == FALSE

(* if (files.length === 0) return; *)
EarlyReturn(fs) == Len(fs) = 0

(* A processImages that puts each result in front of the earlier ones. *)
PushResult_front(run, id) ==
    [run EXCEPT !.results =
        <<[id |-> id,
           originalName |-> OriginalName(run.files[run.i + 1].name),
           quadrants |-> SplitImageIntoFour(run.files[run.i + 1])]>> \o @]

(* results.push({ id, originalName, quadrants }) *)
PushResult(run, id) ==
    [run EXCEPT !.results = Append(@,
        [id |-> id,
         originalName |-> OriginalName(run.files[run.i + 1].name),
         quadrants |-> SplitImageIntoFour(run.files[run.i + 1])])]

(* catch (error) { console.error(...) } : nothing of the run changes *)
CatchError(run) == run

(* i++ *)
NextIteration(run) == [run EXCEPT !.i = @ + 1]

(* A clearAll that forgets to revoke the previews. *)
ClearAllRevoked_none(fs) == {}

(* files.forEach(f => f.preview && URL.revokeObjectURL(f.preview)) *)
ClearAllRevoked(fs) == { fs[k].preview : k \in DOMAIN fs }

(* newFiles.splice(index, 1), index 0-based *)
Splice(fs, index) ==
    [k \in 1..(Len(fs) - 1) |-> IF k <= index THEN fs[k] ELSE fs[k + 1]]

----------------------------------------------------------------------------
Init ==
    /\ files = <<>>
    /\ processed = <<>>
    /\ status = IDLE
    /\ progress = 0
    /\ runs = <<>>
    /\ liveUrls = {}
    /\ nextUrl = 0
    /\ jszip = FALSE
    /\ downloads = <<>>
    /\ lastOp = "init"
    /\ cleared = FALSE
    /\ publisher = "none"

(* The script that defines window.JSZip has loaded. *)
JSZipLoaded ==
    /\ ~jszip
    /\ jszip' = TRUE
    /\ lastOp' = "load"
    /\ UNCHANGED <<files, processed, status, progress, runs, liveUrls, nextUrl,
                   downloads, cleared, publisher>>

(* handleFileChange: every picked file gets a fresh preview URL and is     *)
(* appended to the list.                                                   *)
HandleFileChange ==
    \E picked \in SeqsUpTo(FileNames, MaxPick) :
        /\ Len(files) + Len(picked) <= MaxFiles
        /\ nextUrl + Len(picked) <= MaxUrls
        /\ LET newFiles == [k \in 1..Len(picked) |->
                               [name |-> picked[k],
                                preview |-> nextUrl + k - 1,
                                status |-> "pending"]]
           IN  /\ files' = files \o newFiles
               /\ liveUrls' = liveUrls \cup { newFiles[k].preview : k \in DOMAIN newFiles }
        /\ nextUrl' = nextUrl + Len(picked)
        /\ lastOp' = "add"
        /\ UNCHANGED <<processed, status, progress, runs, jszip, downloads, cleared, publisher>>

(* removeFile(index): the trash button of a rendered file. *)
RemoveFile ==
    \E index \in 0..(Len(files) - 1) :
        /\ liveUrls' = liveUrls \ {files[index + 1].preview}
        /\ files' = Splice(files, index)
        /\ lastOp' = "remove"
        /\ UNCHANGED <<processed, status, progress, runs, nextUrl, jszip,
                       downloads, cleared, publisher>>

(* clearAll: the Reset button, always rendered. *)
ClearAll ==
    /\ liveUrls' = liveUrls \ ClearAllRevoked(files)
    /\ files' = <<>>
    /\ processed' = <<>>
    /\ status' = IDLE
    /\ progress' = 0
    /\ lastOp' = "clear"
    /\ cleared' = TRUE
    /\ publisher' = "none"
    /\ UNCHANGED <<runs, nextUrl, jszip, downloads>>

(* What a continuation of processImages leaves behind: run r is suspended  *)
(* at its next await, or it ran off the end of the loop, lines 77-78, and  *)
(* its closure is gone.                                                    *)
Settle(r, run, prog) ==
    /\ progress' = prog
    /\ IF InFlight(run)
       THEN /\ runs' = [runs EXCEPT ![r] = run]
            /\ UNCHANGED <<processed, status, publisher>>
       ELSE /\ runs' = Remove(runs, r)
            /\ processed' = run.results
            /\ status' = COMPLETED
            /\ publisher' = IF run.latest THEN "latest" ELSE "stale"

(* processImages, up to its first await. The start button is rendered      *)
(* when the list is non-empty and is disabled while status is PROCESSING;  *)
(* with an empty list the handler is entered directly.                     *)
ProcessImages ==
    /\ files # <<>> => status # PROCESSING
    /\ lastOp' = IF files = <<>> THEN "startEmpty" ELSE "start"
    /\ IF EarlyReturn(files)
       THEN UNCHANGED <<processed, status, progress, runs, cleared, publisher>>
       ELSE /\ Len(runs) < MaxRuns
            /\ LET run == NewRun(files)
               IN  /\ progress' = 0
                   /\ IF InFlight(run)
                      THEN /\ runs' = Append(Superseded(runs), run)
                           /\ processed' = <<>>
                           /\ status' = PROCESSING
                           /\ publisher' = "none"
                      ELSE /\ runs' = Superseded(runs)
                           /\ processed' = run.results
                           /\ status' = COMPLETED
                           /\ publisher' = "latest"
            /\ cleared' = FALSE
    /\ UNCHANGED <<files, liveUrls, nextUrl, jszip, downloads>>

(* The awaited splitImageIntoFour of run r resolves: lines 66-71, then the *)
(* loop goes on to the next await or to lines 77-78.                       *)
SplitResolves(r) ==
    /\ InFlight(runs[r])
    /\ \E id \in RandomIds :
         LET pushed == PushResult(runs[r], id)
             run == NextIteration([pushed EXCEPT !.outcome = Append(@, "ok")])
         IN  Settle(r, run, ProgressAt(runs[r].i, Len(runs[r].files)))
    /\ lastOp' = "resolve"
    /\ UNCHANGED <<files, liveUrls, nextUrl, jszip, downloads, cleared>>

(* The awaited splitImageIntoFour of run r rejects: lines 72-74, then the  *)
(* loop goes on to the next await or to lines 77-78.                       *)
SplitRejects(r) ==
    /\ InFlight(runs[r])
    /\ LET caught == CatchError(runs[r])
           run == NextIteration([caught EXCEPT !.outcome = Append(@, "err")])
       IN  Settle(r, run, progress)
    /\ lastOp' = "reject"
    /\ UNCHANGED <<files, liveUrls, nextUrl, jszip, downloads, cleared>>

(* downloadZip up to its await: the download button is rendered when the   *)
(* list is non-empty and status is COMPLETED.                              *)
DownloadZip ==
    /\ files # <<>>
    /\ status = COMPLETED
    /\ lastOp' = "download"
    /\ IF ~jszip
       THEN UNCHANGED downloads
       ELSE /\ Len(downloads) < MaxDownloads
            /\ downloads' = Append(downloads, BuildZip(NewZip, processed, 1))
    /\ UNCHANGED <<files, processed, status, progress, runs, liveUrls, nextUrl,
                   jszip, cleared, publisher>>

(* zip.generateAsync resolves: lines 99-106 create the blob's URL, click   *)
(* the link and revoke the URL again, all in one continuation.             *)
ZipGenerated ==
    /\ downloads # <<>>
    /\ downloads' = Tail(downloads)
    /\ lastOp' = "saved"
    /\ UNCHANGED <<files, processed, status, progress, runs, liveUrls, nextUrl,
                   jszip, cleared, publisher>>

Next ==
    \/ JSZipLoaded
    \/ HandleFileChange
    \/ RemoveFile
    \/ ClearAll
    \/ ProcessImages
    \/ \E r \in DOMAIN runs : SplitResolves(r)
    \/ \E r \in DOMAIN runs : SplitRejects(r)
    \/ DownloadZip
    \/ ZipGenerated

Spec == Init /\ [][Next]_vars

----------------------------------------------------------------------------
(* Vocabulary of the properties *)

HasDot(name) == \E k \in DOMAIN name : name[k] = "."

LastDot(name) ==
    CHOOSE k \in DOMAIN name :
        name[k] = "." /\ \A j \in (k + 1)..Len(name) : name[j] # "."

(* The file name minus its extension: the final "."-suffix removed. *)
StripExtension(name) ==
    IF HasDot(name) THEN SubSeq(name, 1, LastDot(name) - 1) ELSE name

(* The images of fs, from the k-th on, on which the Splitter succeeded. *)
RECURSIVE Succeeded(_, _, _)
Succeeded(fs, oc, k) ==
    IF k > Len(fs) THEN <<>>
    ELSE (IF oc[k] = "ok" THEN <<fs[k].preview>> ELSE <<>>) \o Succeeded(fs, oc, k + 1)

(* The image each result of a list was cut from. *)
ImagesOf(results) == [j \in DOMAIN results |-> results[j].quadrants[1].image]

(* The step is a continuation of run r (its awaited Splitter call settled). *)
Attempted(r) ==
    /\ lastOp' \in {"resolve", "reject"}
    /\ \/ runs' = Remove(runs, r)
       \/ Len(runs') = Len(runs) /\ runs'[r] # runs[r]

(* The step is the continuation of run r that ends it. *)
Finished(r) ==
    /\ lastOp' \in {"resolve", "reject"}
    /\ runs[r].i = Len(runs[r].files) - 1
    /\ runs' = Remove(runs, r)

----------------------------------------------------------------------------
(* C1: whatever subset of a batch the Splitter fails on, the run goes on   *)
(* after each failure, and the list it publishes when it ends holds        *)
(* exactly one result per image the Splitter succeeded on, in input order  *)
(* (N - |F| of them), and none for a failed image.                         *)
C1_FailuresIsolated ==
    [][\A r \in DOMAIN runs :
          LET run == runs[r]
              n == Len(run.files)
              oc == Append(run.outcome,
                           IF lastOp' = "resolve" THEN "ok" ELSE "err")
              failed == { k \in DOMAIN oc : oc[k] = "err" }
          IN  /\ (Attempted(r) /\ ~Finished(r)) =>
                    /\ runs'[r].i = run.i + 1
                    /\ runs'[r].files = run.files
                    /\ lastOp' = "reject" => runs'[r].results = run.results
              /\ Finished(r) =>
                    /\ Len(oc) = n
                    /\ status' = COMPLETED
                    /\ Len(processed') = n - Cardinality(failed)
                    /\ ImagesOf(processed') = Succeeded(run.files, oc, 1)
      ]_vars

(* A run over two images has ended; the first image succeeded, the second  *)
(* failed.                                                                 *)
C1_Witness ==
    /\ lastOp = "reject"
    /\ status = COMPLETED
    /\ publisher = "latest"
    /\ Len(processed) = 1
    /\ progress = 50

(* C2: after the k-th image of a run over N images has been attempted,     *)
(* succeeded or failed, progress is round(100 * k / N); it is 100 when the *)
(* run ends and status becomes COMPLETED.                                  *)
C2_ProgressCountsAttempts ==
    [][\A r \in DOMAIN runs :
          Attempted(r) =>
             /\ progress' = MathRound(100 * (runs[r].i + 1), Len(runs[r].files))
             /\ Finished(r) => (progress' = 100 /\ status' = COMPLETED)
      ]_vars

(* C3: at most one batch run is in flight at any time. *)
C3_SingleRun == Len(runs) <= 1

(* C4: the archive downloadZip builds from M results has exactly M folders *)
(* and 4 * M files: every result has its own folder, named after its       *)
(* display name, with the files {displayName}_quad_{n}.png, n = 1..4, and  *)
(* file n holds quadrant n - 1 of that result.                             *)
C4_ArchiveComplete ==
    [][(lastOp' = "download" /\ jszip /\ Len(downloads') = Len(downloads) + 1) =>
          LET zip == downloads'[Len(downloads')]
              M == Len(processed)
          IN  /\ Cardinality(zip.folders) = M
              /\ Cardinality(zip.entries) = 4 * M
              /\ \A j \in 1..M : \A n \in 1..4 :
                    [folder |-> processed[j].originalName,
                     file |-> <<processed[j].originalName, "_quad_", n, ".png">>,
                     data |-> DataURLtoBlob(processed[j].quadrants[n])]
                        \in zip.entries
      ]_vars

(* C5: progress is an integer in 0..100, and it never decreases while a    *)
(* run is in flight, whatever else is done in between.                     *)
C5_ProgressMonotone ==
    /\ [](progress \in 0..100)
    /\ [][Len(runs) > 0 => progress' >= progress]_vars

(* C6: whenever downloadZip can be invoked (status COMPLETED, file list    *)
(* not empty), no run is in flight and the processed list is the complete  *)
(* result list of the most recently started run.                           *)
C6_ArchiveAfterRun ==
    (status = COMPLETED /\ files # <<>>) =>
        (Len(runs) = 0 /\ publisher = "latest")

(* C7: starting a batch on an empty file list changes nothing: status,     *)
(* progress and the processed list stay as they are and no run begins.     *)
C7_EmptyStartNoOp ==
    [][(files = <<>> /\ lastOp' = "startEmpty") =>
          UNCHANGED <<status, progress, processed, runs, publisher>>
      ]_vars

(* processImages was entered with an empty list after a completed run. *)
C7_Witness ==
    /\ lastOp = "startEmpty"
    /\ files = <<>>
    /\ status = COMPLETED
    /\ processed # <<>>

(* C8: the display name of a result is the file name minus its extension,  *)
(* that is, minus its final "."-suffix only.                               *)
C8_DisplayNameStripsExtension ==
    \A r \in DOMAIN runs : \A j \in DOMAIN runs[r].results :
        \A k \in DOMAIN runs[r].files :
            runs[r].files[k].preview = runs[r].results[j].quadrants[1].image =>
                runs[r].results[j].originalName = StripExtension(runs[r].files[k].name)

(* C9: from clearAll until the next start on a non-empty list, status is   *)
(* IDLE, progress is 0 and the processed list is empty.                    *)
C9_ClearedStaysIdle ==
    cleared => (status = IDLE /\ progress = 0 /\ processed = <<>>)

(* C10: the preview URLs created and not yet revoked are exactly the       *)
(* previews of the files in the list, one per file.                        *)
C10_PreviewsMatchFiles ==
    /\ liveUrls = { files[k].preview : k \in DOMAIN files }
    /\ Cardinality(liveUrls) = Len(files)

(* A file was removed, its preview is revoked, another file is still in    *)
(* the list with its preview live.                                         *)
C10_Witness ==
    /\ lastOp = "remove"
    /\ files # <<>>
    /\ Cardinality(liveUrls) < nextUrl
====
